---- MODULE Spec2Model ----
(***************************************************************************)
(* A model of sql_grader/problem.py: SqlProblem (construction, attempt,    *)
(* clone_database, get_query_result, _run, compare_rows) over a small      *)
(* relational engine with one table Movie(mID int UNIQUE).                 *)
(***************************************************************************)
EXTENDS Integers, Sequences, FiniteSets, TLC

\* ------------------------------------------------------------------ bounds
\* Attempts started on one problem.
MaxAttempts == 2
\* Rows of a result set handed to compare_rows in SpecCompare.
MaxLen == 3

\* ------------------------------------------------------ values and rows
\* Column values as sqlite3 hands them to Python: int, float, None.
IntV(n) == [k |-> "int", n |-> n]
RealV(n) == [k |-> "real", n |-> n]
NullV == [k |-> "null", n |-> 0]

\* Python's == on two column values: None equals only None, 1 == 1.0.
PyEq(v, w) == IF v.k = "null" \/ w.k = "null" THEN v.k = w.k ELSE v.n = w.n

\* Python's == on two row tuples.
RowEq(r, s) == Len(r) = Len(s) /\ \A i \in 1..Len(r) : PyEq(r[i], s[i])

\* Python's None, for a row list and for a message.
NoneRows == [some |-> FALSE, v |-> <<>>]
NoneMsg == [some |-> FALSE, v |-> ""]
SomeRows(rows) == [some |-> TRUE, v |-> rows]
SomeMsg(m) == [some |-> TRUE, v |-> m]

\* The decimal digits of a natural number, as character codes.
RECURSIVE Digits(_)
Digits(n) == IF n < 10 THEN <<48 + n>> ELSE Digits(n \div 10) \o <<48 + (n % 10)>>

\* repr() of a column value: 10, 10.0, None.
Repr(v) ==
  CASE v.k = "int" -> Digits(v.n)
    [] v.k = "real" -> Digits(v.n) \o <<46, 48>>
    [] OTHER -> <<78, 111, 110, 101>>

RECURSIVE JoinRepr(_, _)
JoinRepr(r, i) ==
  IF i > Len(r) THEN <<>>
  ELSE (IF i > 1 THEN <<44, 32>> ELSE <<>>) \o Repr(r[i]) \o JoinRepr(r, i + 1)

\* str() of a row tuple, the sort key of compare_rows: (1,)  (1, 2.0)  ()
StrRow(r) ==
  <<40>> \o JoinRepr(r, 1) \o (IF Len(r) = 1 THEN <<44>> ELSE <<>>) \o <<41>>

\* Python's < on two strings (code point by code point, a prefix is smaller).
StrLess(s, t) ==
  \E i \in 1..Len(t) :
    /\ \A j \in 1..(i - 1) : j <= Len(s) /\ s[j] = t[j]
    /\ (i > Len(s) \/ s[i] < t[i])

\* One step of a stable sort by key: r goes after every row whose key is <= its own.
RECURSIVE InsertByKey(_, _)
InsertByKey(sorted, r) ==
  IF sorted = <<>> THEN <<r>>
  ELSE IF StrLess(StrRow(r), StrRow(sorted[1])) THEN <<r>> \o sorted
  ELSE <<sorted[1]>> \o InsertByKey(Tail(sorted), r)

\* sorted(rows, key=str)
RECURSIVE SortedByStr(_)
SortedByStr(rows) ==
  IF rows = <<>> THEN <<>>
  ELSE InsertByKey(SortedByStr(SubSeq(rows, 1, Len(rows) - 1)), rows[Len(rows)])

\* all(a == b for a, b in zip(xs, ys))
AllPairsEqual(xs, ys) ==
  \A i \in 1..(IF Len(xs) < Len(ys) THEN Len(xs) ELSE Len(ys)) : RowEq(xs[i], ys[i])

\* x or []
OrEmpty(x) == IF x.some THEN x.v ELSE <<>>

\* Mutant: the rows are sorted whatever is_ordered says.
compare_rows_always_sorted(expected, actual, is_ordered) ==
  LET e == OrEmpty(expected)
      a == OrEmpty(actual)
  IN  IF Len(e) # Len(a) THEN FALSE
      ELSE AllPairsEqual(SortedByStr(e), SortedByStr(a))

\* Mutant: only the expected rows are sorted.
compare_rows_one_side(expected, actual, is_ordered) ==
  LET e == OrEmpty(expected)
      a == OrEmpty(actual)
  IN  IF Len(e) # Len(a) THEN FALSE
      ELSE IF ~is_ordered THEN AllPairsEqual(SortedByStr(e), a)
      ELSE AllPairsEqual(e, a)

\* SqlProblem.compare_rows
compare_rows(expected, actual, is_ordered) ==
  LET e == OrEmpty(expected)
      a == OrEmpty(actual)
  IN  IF Len(e) # Len(a) THEN FALSE
      ELSE IF ~is_ordered THEN AllPairsEqual(SortedByStr(e), SortedByStr(a))
      ELSE AllPairsEqual(e, a)

\* ------------------------------------------------------------ the engine
\* A database is the content of its one table, Movie(mID int UNIQUE): the set
\* of mID values. A statement is a record; a query text is a sequence of
\* statements (the text between the semicolons).
Select(ord, lt) == [op |-> "select", ord |-> ord, x |-> lt, y |-> 0]
Insert(n) == [op |-> "insert", ord |-> "", x |-> n, y |-> 0]
Update(from, to) == [op |-> "update", ord |-> "", x |-> from, y |-> to]
NotSql(tok) == [op |-> "bad", ord |-> tok, x |-> 0, y |-> 0]

\* SELECT * FROM Movie ORDER BY mID ASC / DESC
SelAsc == Select("asc", 100)
SelDesc == Select("desc", 100)
\* SELECT * FROM Movie WHERE mID < 10 ORDER BY mID ASC
SelLow == Select("asc", 10)
\* SELECT * FROM Movie WHERE mID < 0 ORDER BY mID ASC
SelNone == Select("asc", 0)

\* str() of the exceptions the engine raises.
SyntaxMsg(tok) ==
  IF tok = "Not" THEN "near \"Not\": syntax error"
  ELSE "near \"answer_query\": syntax error"
UniqueMsg == "UNIQUE constraint failed: Movie.mID"

\* VerifyQeuryException.default_msg
VerifyMsg ==
  "Verification query should not contain multiple statemtents. Check problem configuration."

\* sqlite3_prepare of one statement succeeds.
Compiles(s) == s.op # "bad"

Least(S) == CHOOSE m \in S : \A o \in S : m <= o

RECURSIVE AscRows(_)
AscRows(S) ==
  IF S = {} THEN <<>> ELSE <<(<<IntV(Least(S))>>)>> \o AscRows(S \ {Least(S)})

Reverse(xs) == [i \in 1..Len(xs) |-> xs[Len(xs) + 1 - i]]

\* One statement prepared and stepped to its end: the database after it, the
\* rows it yields, the message of the exception it raises (none: it succeeds).
\* A failing statement changes nothing.
ExecStmt(db, s) ==
  CASE s.op = "select" ->
         LET hit == {m \in db : m < s.x}
         IN  [db |-> db,
              rows |-> IF s.ord = "asc" THEN AscRows(hit) ELSE Reverse(AscRows(hit)),
              err |-> NoneMsg]
    [] s.op = "insert" ->
         IF s.x \in db THEN [db |-> db, rows |-> <<>>, err |-> SomeMsg(UniqueMsg)]
         ELSE [db |-> db \cup {s.x}, rows |-> <<>>, err |-> NoneMsg]
    [] s.op = "update" ->
         IF s.x \notin db THEN [db |-> db, rows |-> <<>>, err |-> NoneMsg]
         ELSE IF s.y \in db /\ s.y # s.x
              THEN [db |-> db, rows |-> <<>>, err |-> SomeMsg(UniqueMsg)]
         ELSE [db |-> (db \ {s.x}) \cup {s.y}, rows |-> <<>>, err |-> NoneMsg]
    [] OTHER -> [db |-> db, rows |-> <<>>, err |-> SomeMsg(SyntaxMsg(s.ord))]

\* F(x), with x evaluated once.
Bind(x, F(_)) == CHOOSE y \in {F(v) : v \in {x}} : TRUE

\* Mutant: the script stops after its first statement.
ExecuteScriptFirstOnly(db, query, i) ==
  IF i > 1 THEN [db |-> db, err |-> NoneMsg]
  ELSE Bind(ExecStmt(db, query[i]), LAMBDA r : [db |-> r.db, err |-> r.err])

\* connection.executescript(query) from statement i on: each statement in
\* textual order, stopping at the first that raises; what ran before stays.
RECURSIVE ExecuteScript(_, _, _)
ExecuteScript(db, query, i) ==
  IF i > Len(query) THEN [db |-> db, err |-> NoneMsg]
  ELSE Bind(ExecStmt(db, query[i]),
            LAMBDA r : IF r.err.some THEN [db |-> r.db, err |-> r.err]
                       ELSE ExecuteScript(r.db, query, i + 1))

\* The outcome of _run: the database after it, the pair it returns, and whether
\* an exception leaves it instead (the broad except of line 156 lets none).
Raised(db, m) == [db |-> db, result |-> NoneRows, message |-> m, escapes |-> FALSE]
Returned(db, rows) ==
  [db |-> db, result |-> SomeRows(rows), message |-> NoneMsg, escapes |-> FALSE]

\* Mutant: the rows gathered so far are kept when the query raises.
RunKeepsRows(db, query, is_verify_query) ==
  IF Len(query) = 0 THEN Returned(db, <<>>)
  ELSE IF ~Compiles(query[1])
       THEN [db |-> db, result |-> SomeRows(<<>>),
             message |-> SomeMsg(SyntaxMsg(query[1].ord)), escapes |-> FALSE]
  ELSE IF Len(query) = 1
       THEN LET r == ExecStmt(db, query[1])
            IN  IF r.err.some
                THEN [db |-> r.db, result |-> SomeRows(<<>>), message |-> r.err,
                      escapes |-> FALSE]
                ELSE Returned(r.db, r.rows)
  ELSE IF is_verify_query THEN Raised(db, SomeMsg(VerifyMsg))
  ELSE LET r == ExecuteScript(db, query, 1)
       IN  IF r.err.some
           THEN [db |-> r.db, result |-> SomeRows(<<>>), message |-> r.err,
                 escapes |-> FALSE]
           ELSE Returned(r.db, <<>>)

\* Mutant: is_verify_query is ignored, a verification query falls back to the script.
RunVerifyFallsBack(db, query, is_verify_query) ==
  IF Len(query) = 0 THEN Returned(db, <<>>)
  ELSE IF ~Compiles(query[1]) THEN Raised(db, SomeMsg(SyntaxMsg(query[1].ord)))
  ELSE IF Len(query) = 1
       THEN LET r == ExecStmt(db, query[1])
            IN  IF r.err.some THEN Raised(r.db, r.err) ELSE Returned(r.db, r.rows)
  ELSE LET r == ExecuteScript(db, query, 1)
       IN  IF r.err.some THEN Raised(r.db, r.err) ELSE Returned(r.db, <<>>)

\* Mutant: VerifyQeuryException is not caught in _run.
RunVerifyEscapes(db, query, is_verify_query) ==
  IF Len(query) = 0 THEN Returned(db, <<>>)
  ELSE IF ~Compiles(query[1]) THEN Raised(db, SomeMsg(SyntaxMsg(query[1].ord)))
  ELSE IF Len(query) = 1
       THEN LET r == ExecStmt(db, query[1])
            IN  IF r.err.some THEN Raised(r.db, r.err) ELSE Returned(r.db, r.rows)
  ELSE IF is_verify_query
       THEN [db |-> db, result |-> NoneRows, message |-> SomeMsg(VerifyMsg),
             escapes |-> TRUE]
  ELSE LET r == ExecuteScript(db, query, 1)
       IN  IF r.err.some THEN Raised(r.db, r.err) ELSE Returned(r.db, <<>>)

\* SqlProblem._run on a database with content db, on the Python versions the
\* code is written for (a text of several statements raises sqlite3.Warning).
\* connection.execute prepares
\* the first statement (a text that does not compile raises there), refuses a
\* text with more after it ("You can only execute one statement at a time."),
\* and otherwise runs the one statement. The refusal raises
\* VerifyQeuryException for a verification query and falls back to
\* executescript, which yields no rows, for any other. Every exception ends in
\* the broad except: result None, message str(error).
Run(db, query, is_verify_query) ==
  IF Len(query) = 0 THEN Returned(db, <<>>)
  ELSE IF ~Compiles(query[1]) THEN Raised(db, SomeMsg(SyntaxMsg(query[1].ord)))
  ELSE IF Len(query) = 1
       THEN LET r == ExecStmt(db, query[1])
            IN  IF r.err.some THEN Raised(r.db, r.err) ELSE Returned(r.db, r.rows)
  ELSE IF is_verify_query THEN Raised(db, SomeMsg(VerifyMsg))
  ELSE LET r == ExecuteScript(db, query, 1)
       IN  IF r.err.some THEN Raised(r.db, r.err) ELSE Returned(r.db, <<>>)

\* ------------------------------------------------------------- the state
VARIABLES
  heap,         \* the open connections: handle -> database content
  nconn,        \* connections opened so far (the next handle is nconn + 1)
  pristine,     \* the content the reference database was loaded with
  self,         \* the SqlProblem object's attributes, and how far __init__ got (phase)
  ctor_error,   \* the message __init__ drops (the _ of line 55)
  th,           \* per thread: the frame of its attempt() call
  nattempts,    \* attempt() calls started
  cmp           \* SpecCompare: the arguments and the result of one compare_rows call

vars == <<heap, nconn, pristine, self, ctor_error, th, nattempts, cmp>>

Threads == {"t1", "t2"}

\* The datasets a reference database is loaded from.
Datasets == {{2, 10}, {1, 2}}

\* The problem definitions and submissions explored. <<>> is "not configured"
\* (None or an empty text, both false in `if verify_query:`).
AnswerQueries ==
  {<<SelDesc>>, <<SelNone>>, <<Insert(1), Insert(3)>>, <<NotSql("answer_query")>>}
VerifyQueries ==
  {<<>>, <<SelLow>>, <<Insert(3), SelAsc>>, <<NotSql("Not"), SelAsc>>}
ModificationQueries == {<<>>, <<Insert(1)>>}
Submissions ==
  {<<SelAsc>>, <<Update(10, 1)>>, <<Update(10, 1), Insert(3)>>, <<NotSql("Not")>>,
   <<Insert(3), Insert(2), Insert(1)>>, <<NotSql("Not"), Insert(3)>>}

NoPair == [result |-> NoneRows, error |-> NoneMsg]
NoRet ==
  [submission_result |-> NoneRows, answer_result |-> NoneRows,
   error |-> NoneMsg, comparison |-> FALSE]

\* A thread that is not inside attempt().
Idle ==
  [pc |-> "idle", query |-> <<>>, database |-> 0,
   result |-> NoneRows, error |-> NoneMsg,
   first |-> NoPair,          \* what _run returned for the submission (line 121)
   discarded |-> NoneMsg,     \* the message of the modification step (the _ of line 124)
   after_submission |-> {},   \* the sandbox as the submission step left it
   before_verify |-> {},      \* the sandbox as the verification step found it
   ret |-> NoRet]

\* Mutant: the "clone" is the source connection itself.
CloneDatabaseAlias(h, n, source) == [heap |-> h, nconn |-> n, handle |-> source]

\* Mutant: the dump is taken from the connection opened last, not from the source.
CloneDatabaseOfLast(h, n, source) ==
  [heap |-> [x \in DOMAIN h \cup {n + 1} |->
               IF x # n + 1 THEN h[x]
               ELSE IF n \in DOMAIN h THEN h[n] ELSE h[source]],
   nconn |-> n + 1, handle |-> n + 1]

\* SqlProblem.clone_database: a new in-memory connection holding the dump of
\* the source.
CloneDatabase(h, n, source) ==
  [heap |-> [x \in DOMAIN h \cup {n + 1} |-> IF x = n + 1 THEN h[source] ELSE h[x]],
   nconn |-> n + 1, handle |-> n + 1]

\* _run(database, query, is_verify_query) on the connection `database` of h.
RunOn(h, database, query, is_verify_query) ==
  Bind(Run(h[database], query, is_verify_query),
       LAMBDA r : [heap |-> [h EXCEPT ![database] = r.db], result |-> r.result,
                   message |-> r.message, escapes |-> r.escapes])

\* A connection nothing refers to any more is closed; the reference database
\* stays, self.database refers to it.
Discard(h, database, reference) ==
  IF database = reference THEN h ELSE [x \in DOMAIN h \ {database} |-> h[x]]

\* Mutant: the modification step's pair is what is returned when it raised.
GetQueryResultKeepsModification(h, n, source, query, verify_query, modification_query) ==
  Bind(CloneDatabase(h, n, source), LAMBDA c :
  Bind(RunOn(c.heap, c.handle, query, FALSE), LAMBDA r1 :
  Bind(IF verify_query # <<>> /\ modification_query # <<>>
       THEN RunOn(r1.heap, c.handle, modification_query, FALSE)
       ELSE [heap |-> r1.heap, result |-> r1.result, message |-> NoneMsg,
             escapes |-> FALSE], LAMBDA r2 :
  Bind(IF verify_query # <<>> /\ ~r2.message.some
       THEN RunOn(r2.heap, c.handle, verify_query, TRUE)
       ELSE [heap |-> r2.heap, result |-> r2.result,
             message |-> IF r2.message.some THEN r2.message ELSE r1.message,
             escapes |-> FALSE], LAMBDA r3 :
    [heap |-> Discard(r3.heap, c.handle, source), nconn |-> c.nconn,
     result |-> r3.result, error |-> r3.message,
     escapes |-> r1.escapes \/ r2.escapes \/ r3.escapes]))))

\* SqlProblem.get_query_result, run in one piece.
GetQueryResult(h, n, source, query, verify_query, modification_query) ==
  Bind(CloneDatabase(h, n, source), LAMBDA c :
  Bind(RunOn(c.heap, c.handle, query, FALSE), LAMBDA r1 :
  Bind(IF verify_query # <<>> /\ modification_query # <<>>
       THEN RunOn(r1.heap, c.handle, modification_query, FALSE)
       ELSE [heap |-> r1.heap, result |-> r1.result, message |-> NoneMsg,
             escapes |-> FALSE], LAMBDA r2 :
  Bind(IF verify_query # <<>>
       THEN RunOn(r2.heap, c.handle, verify_query, TRUE)
       ELSE r1, LAMBDA r3 :
    [heap |-> Discard(r3.heap, c.handle, source), nconn |-> c.nconn,
     result |-> r3.result, error |-> r3.message,
     escapes |-> r1.escapes \/ r2.escapes \/ r3.escapes]))))

CmpIdle ==
  [expected |-> NoneRows, actual |-> NoneRows, is_ordered |-> TRUE,
   done |-> FALSE, comparison |-> FALSE]

\* The reference database is loaded (create_database_from_sql) and the problem
\* definition is chosen; __init__ has not run.
Init ==
  /\ pristine \in Datasets
  /\ heap = [x \in {1} |-> pristine]
  /\ nconn = 1
  /\ self \in [phase : {"new"}, database : {1},
               answer_query : AnswerQueries, verify_query : VerifyQueries,
               modification_query : ModificationQueries, is_ordered : BOOLEAN,
               answer_result : {NoneRows}]
  /\ ctor_error = NoneMsg
  /\ th = [t \in Threads |-> Idle]
  /\ nattempts = 0
  /\ cmp = CmpIdle

\* SqlProblem.__init__: it returns the object ("constructed"), or an exception
\* that left get_query_result leaves it too ("failed").
Construct ==
  /\ self.phase = "new"
  /\ \E g \in {GetQueryResult(heap, nconn, self.database, self.answer_query,
                                self.verify_query, self.modification_query)} :
         /\ heap' = g.heap
         /\ nconn' = g.nconn
         /\ self' = IF g.escapes THEN [self EXCEPT !.phase = "failed"]
                    ELSE [self EXCEPT !.phase = "constructed", !.answer_result = g.result]
         /\ ctor_error' = g.error
  /\ UNCHANGED <<pristine, th, nattempts, cmp>>

\* attempt(query) is called: get_query_result clones the reference (line 120).
Attempt(t, q) ==
  /\ self.phase = "constructed"
  /\ th[t].pc = "idle"
  /\ nattempts < MaxAttempts
  /\ \E c \in {CloneDatabase(heap, nconn, self.database)} :
         /\ heap' = c.heap
         /\ nconn' = c.nconn
         /\ th' = [th EXCEPT ![t] = [Idle EXCEPT !.pc = "run", !.query = q,
                                                 !.database = c.handle]]
  /\ nattempts' = nattempts + 1
  /\ UNCHANGED <<pristine, self, ctor_error, cmp>>

\* result, error = _run(database, query)   (line 121, and the test of line 122)
RunSubmission(t) ==
  /\ th[t].pc = "run"
  /\ \E r \in {RunOn(heap, th[t].database, th[t].query, FALSE)} :
         /\ heap' = r.heap
         /\ th' = [th EXCEPT ![t].result = r.result, ![t].error = r.message,
                             ![t].first = [result |-> r.result, error |-> r.message],
                             ![t].after_submission = r.heap[th[t].database],
                             ![t].pc = IF r.escapes THEN "raise"
                                       ELSE IF self.verify_query = <<>> THEN "return"
                                       ELSE IF self.modification_query = <<>> THEN "verify"
                                       ELSE "modify"]
  /\ UNCHANGED <<nconn, pristine, self, ctor_error, nattempts, cmp>>

\* result, _ = _run(database, modification_query)   (line 124)
RunModification(t) ==
  /\ th[t].pc = "modify"
  /\ \E r \in {RunOn(heap, th[t].database, self.modification_query, FALSE)} :
         /\ heap' = r.heap
         /\ th' = [th EXCEPT ![t].result = r.result, ![t].discarded = r.message,
                             ![t].pc = IF r.escapes THEN "raise" ELSE "verify"]
  /\ UNCHANGED <<nconn, pristine, self, ctor_error, nattempts, cmp>>

\* result, error = _run(database, verify_query, True)   (line 125)
RunVerify(t) ==
  /\ th[t].pc = "verify"
  /\ \E r \in {RunOn(heap, th[t].database, self.verify_query, TRUE)} :
         /\ heap' = r.heap
         /\ th' = [th EXCEPT ![t].result = r.result, ![t].error = r.message,
                             ![t].before_verify = heap[th[t].database],
                             ![t].pc = IF r.escapes THEN "raise" ELSE "return"]
  /\ UNCHANGED <<nconn, pristine, self, ctor_error, nattempts, cmp>>

\* get_query_result returns (its sandbox goes with it) and attempt compares
\* and builds its result (lines 126, 72-77); an exception that left _run leaves
\* attempt too.
Compare(t) ==
  /\ th[t].pc \in {"return", "raise"}
  /\ heap' = Discard(heap, th[t].database, self.database)
  /\ th' = IF th[t].pc = "raise" THEN [th EXCEPT ![t].pc = "raised"]
     ELSE [th EXCEPT ![t].pc = "done",
                      ![t].ret = [submission_result |-> th[t].result,
                                  answer_result |-> self.answer_result,
                                  error |-> th[t].error,
                                  comparison |-> compare_rows(self.answer_result,
                                                              th[t].result,
                                                              self.is_ordered)]]
  /\ UNCHANGED <<nconn, pristine, self, ctor_error, nattempts, cmp>>

\* The caller has the Attempt Result; the thread is free for another attempt.
Return(t) ==
  /\ th[t].pc \in {"done", "raised"}
  /\ th' = [th EXCEPT ![t] = Idle]
  /\ UNCHANGED <<heap, nconn, pristine, self, ctor_error, nattempts, cmp>>

Next ==
  \/ Construct
  \/ \E t \in Threads, q \in Submissions : Attempt(t, q)
  \/ \E t \in Threads : RunSubmission(t)
  \/ \E t \in Threads : RunModification(t)
  \/ \E t \in Threads : RunVerify(t)
  \/ \E t \in Threads : Compare(t)
  \/ \E t \in Threads : Return(t)

Spec == Init /\ [][Next]_vars

\* ------------------------------------------- compare_rows on its own inputs
\* The rows compare_rows is given: tuples of int, float and None columns.
RowUniverse ==
  {<<IntV(1)>>, <<IntV(2)>>, <<IntV(10)>>, <<RealV(1)>>, <<NullV>>, <<IntV(1), IntV(2)>>}

RowLists == UNION {[1..n -> RowUniverse] : n \in 0..MaxLen}

\* Every reordering of a row list (None has only itself).
Reorderings(x) ==
  IF ~x.some THEN {x}
  ELSE LET n == Len(x.v)
       IN  {SomeRows([i \in 1..n |-> x.v[f[i]]]) :
              f \in {g \in [1..n -> 1..n] : \A i, j \in 1..n : g[i] = g[j] => i = j}}

InitCompare ==
  /\ pristine = {}
  /\ heap = [x \in {1} |-> pristine]
  /\ nconn = 1
  /\ self = [phase |-> "new", database |-> 1, answer_query |-> <<SelAsc>>,
             verify_query |-> <<>>, modification_query |-> <<>>, is_ordered |-> TRUE,
             answer_result |-> NoneRows]
  /\ ctor_error = NoneMsg
  /\ th = [t \in Threads |-> Idle]
  /\ nattempts = 0
  /\ \E x \in {NoneRows} \cup {SomeRows(l) : l \in RowLists} :
       cmp = [CmpIdle EXCEPT !.expected = x]

\* compare_rows(expected, actual, is_ordered=o) with a reordering of expected.
CompareRows(a, o) ==
  /\ ~cmp.done
  /\ cmp' = [cmp EXCEPT !.actual = a, !.is_ordered = o, !.done = TRUE,
                        !.comparison = compare_rows(cmp.expected, a, o)]
  /\ UNCHANGED <<heap, nconn, pristine, self, ctor_error, th, nattempts>>

NextCompare == \E a \in Reorderings(cmp.expected), o \in BOOLEAN : CompareRows(a, o)

SpecCompare == InitCompare /\ [][NextCompare]_vars

\* ----------------------------------------------------------------- claims
Done(t) == th[t].pc = "done"
InFlight(t) == th[t].pc \in {"run", "modify", "verify", "return", "raise"}

\* C1: the reference database always holds the content it was loaded with,
\* before construction, after it, and during and after every attempt.
C1_ReferenceNeverMutated ==
  /\ self.database \in DOMAIN heap
  /\ heap[self.database] = pristine

\* An attempt whose queries changed its sandbox, with the problem constructed.
C1_Witness ==
  /\ self.phase = "constructed"
  /\ \E t \in Threads :
       /\ th[t].pc = "return"
       /\ th[t].database # self.database
       /\ heap[th[t].database] # pristine
       /\ th[t].first.error.some

\* C2 as claimed: an attempt whose submission raised returns comparison false,
\* an error message and no submission rows.
C2_FailedSubmissionNeverPasses ==
  \A t \in Threads :
    (Done(t) /\ th[t].first.error.some) =>
      /\ ~th[t].ret.comparison
      /\ th[t].ret.error.some
      /\ ~th[t].ret.submission_result.some

\* The chain of the problem definition cannot execute in the ways C3 names:
\* the answer query is not SQL, or the verification query has several statements.
ChainCannotExecute ==
  \/ ~Compiles(self.answer_query[1])
  \/ Len(self.verify_query) >= 2

\* C3 as claimed: when the chain cannot execute, __init__ ends in an error
\* and returns no Problem Definition.
C3_ConstructionFails ==
  (self.phase # "new" /\ ChainCannotExecute) => self.phase = "failed"

\* C3 as amended: construction always returns a Problem Definition; the cached
\* answer result is none exactly when the last step of the chain raised (its
\* message is dropped), which it does for a verification query of several
\* statements and for an invalid answer query without verification query; an
\* answer query that raised before a verification query that runs leaves that
\* query's rows cached.
C3_ConstructionSwallowsFailure ==
  /\ self.phase # "failed"
  /\ self.phase = "constructed" =>
       /\ Len(self.verify_query) >= 2 =>
            (self.answer_result = NoneRows /\ ctor_error.some)
       /\ (self.verify_query = <<>> /\ ~Compiles(self.answer_query[1])) =>
            (self.answer_result = NoneRows /\ ctor_error.some)
       /\ (Len(self.verify_query) = 1 /\ self.verify_query[1].op = "select") =>
            (self.answer_result.some /\ ~ctor_error.some)

\* A problem constructed from an invalid answer query and one from a
\* verification query of two statements, each with none cached; here the former
\* after an attempt on it.
C3_Witness ==
  /\ self.phase = "constructed"
  /\ ~Compiles(self.answer_query[1])
  /\ self.verify_query = <<>>
  /\ self.answer_result = NoneRows
  /\ \E t \in Threads : Done(t) /\ ~th[t].ret.answer_result.some

\* What the verification step of thread t returned and left behind.
VerifyViolation(t) ==
  /\ th[t].error = SomeMsg(VerifyMsg)
  /\ th[t].result = NoneRows
  /\ heap[th[t].database] = th[t].before_verify

\* C4 as claimed: a verification query of two or more statements always ends
\* in the verification-contract violation, with none of its statements run.
C4_MultiStatementVerifyAlwaysViolation ==
  \A t \in Threads :
    (th[t].pc = "return" /\ Len(self.verify_query) >= 2) => VerifyViolation(t)

\* C4 as amended: so it does whenever its first statement compiles (a text
\* whose first statement does not compile raises the engine's error for that
\* statement instead); in both cases none of its statements is run.
C4_MultiStatementVerifyViolation ==
  \A t \in Threads :
    (th[t].pc = "return" /\ Len(self.verify_query) >= 2) =>
      /\ heap[th[t].database] = th[t].before_verify
      /\ th[t].result = NoneRows
      /\ Compiles(self.verify_query[1]) => VerifyViolation(t)

\* The verification query INSERT 3; SELECT was refused after a submission that
\* ran, and 3 is not in the sandbox.
C4_Witness ==
  \E t \in Threads :
    /\ th[t].pc = "return"
    /\ self.verify_query = <<Insert(3), SelAsc>>
    /\ ~th[t].first.error.some
    /\ th[t].error = SomeMsg(VerifyMsg)
    /\ 3 \notin heap[th[t].database]

\* C5 as claimed: a modification query that raised during an attempt gives the
\* Attempt Result its message as error and a false comparison.
C5_ModificationErrorReported ==
  \A t \in Threads :
    (Done(t) /\ th[t].discarded.some) =>
      /\ th[t].ret.error = th[t].discarded
      /\ ~th[t].ret.comparison

\* The database after each of the statements 1..upto of a text has been run in
\* turn, a statement that raises changing nothing.
RECURSIVE Effects(_, _, _)
Effects(db, query, upto) ==
  IF upto = 0 THEN db
  ELSE ExecStmt(Effects(db, query, upto - 1), query[upto]).db

\* The first statement of a text that raises, Len + 1 when none does.
FirstFailure(db, query) ==
  IF \E i \in 1..Len(query) : ExecStmt(Effects(db, query, i - 1), query[i]).err.some
  THEN CHOOSE i \in 1..Len(query) :
         /\ ExecStmt(Effects(db, query, i - 1), query[i]).err.some
         /\ \A j \in 1..(i - 1) : ~ExecStmt(Effects(db, query, j - 1), query[j]).err.some
  ELSE Len(query) + 1

Submitted(t) == th[t].pc \in {"modify", "verify", "return", "done"}

\* With a verification query of one statement and no modification query, the
\* submission result is that query's rows over the sandbox the submission left.
VerifiedOverFinalState(t) ==
  (Done(t) /\ Len(self.verify_query) = 1 /\ self.modification_query = <<>>) =>
    /\ th[t].before_verify = th[t].after_submission
    /\ th[t].ret.submission_result =
         SomeRows(ExecStmt(th[t].after_submission, self.verify_query[1]).rows)
    /\ th[t].ret.comparison =
         compare_rows(self.answer_result, th[t].ret.submission_result, self.is_ordered)

\* C6 as claimed: every statement of a multi-statement submission is run, in
\* textual order, and the verification query's rows over the final state are
\* the submission result.
C6_ScriptRunInFull ==
  \A t \in Threads :
    (Submitted(t) /\ Len(th[t].query) >= 2) =>
      /\ th[t].after_submission = Effects(pristine, th[t].query, Len(th[t].query))
      /\ VerifiedOverFinalState(t)

\* C6 as amended: the statements are run in textual order up to the first that
\* raises (all of them when none does, none when the first does not compile),
\* what ran stays in the sandbox, and the verification query's rows over that
\* state are the submission result.
C6_ScriptRunUntilFailure ==
  \A t \in Threads :
    (Submitted(t) /\ Len(th[t].query) >= 2) =>
      LET k == FirstFailure(pristine, th[t].query)
      IN  /\ th[t].after_submission = Effects(pristine, th[t].query, k - 1)
          /\ th[t].first.result =
               (IF k > Len(th[t].query) THEN SomeRows(<<>>) ELSE NoneRows)
          /\ VerifiedOverFinalState(t)

\* UPDATE 10 -> 1; INSERT 3 ran in full on {2, 10} and the verification query
\* returned the rows of {1, 2, 3}.
C6_Witness ==
  \E t \in Threads :
    /\ Done(t)
    /\ th[t].query = <<Update(10, 1), Insert(3)>>
    /\ self.verify_query = <<SelLow>>
    /\ self.modification_query = <<>>
    /\ th[t].after_submission = {1, 2, 3}
    /\ th[t].ret.submission_result = SomeRows(<< <<IntV(1)>>, <<IntV(2)>>, <<IntV(3)>> >>)

\* X has at least two distinct rows.
TwoDistinctRows(x) == \E i, j \in 1..Len(x) : ~RowEq(x[i], x[j])

\* X differs from its own reverse at some position.
DiffersFromReverse(x) == \E i \in 1..Len(x) : ~RowEq(x[i], x[Len(x) + 1 - i])

ReversedCall ==
  /\ cmp.done
  /\ cmp.expected.some
  /\ cmp.actual = SomeRows(Reverse(cmp.expected.v))

\* C7 as claimed: compare(X, reverse(X), ordered=true) is false for every X
\* with at least two distinct rows.
C7_ReverseOrderedFalse ==
  (ReversedCall /\ cmp.is_ordered /\ TwoDistinctRows(cmp.expected.v)) => ~cmp.comparison

\* C7 as amended: it is false for every X that differs from its own reverse,
\* so for every X of two or more pairwise distinct rows.
C7_ReverseOrderedFalseUnlessPalindrome ==
  (ReversedCall /\ cmp.is_ordered /\ DiffersFromReverse(cmp.expected.v)) => ~cmp.comparison

\* The ordered comparison of three pairwise distinct rows with their reverse.
C7_Witness ==
  /\ ReversedCall
  /\ cmp.is_ordered
  /\ cmp.expected.v = << <<IntV(1)>>, <<IntV(2)>>, <<IntV(10)>> >>
  /\ ~cmp.comparison

\* C8: the unordered comparison of X with any reordering of X is true.
C8_UnorderedIgnoresOrder == (cmp.done /\ ~cmp.is_ordered) => cmp.comparison

\* The unordered comparison of rows whose string order is not their numeric
\* order with their reverse.
C8_Witness ==
  /\ ReversedCall
  /\ ~cmp.is_ordered
  /\ cmp.expected.v = << <<IntV(2)>>, <<IntV(10)>>, <<RealV(1)>> >>
  /\ cmp.comparison

\* attempt(q) run alone, right after construction on the dataset as loaded.
AttemptAlone(q) ==
  LET h0 == [x \in {1} |-> pristine]
      a == GetQueryResult(h0, 1, 1, self.answer_query, self.verify_query,
                          self.modification_query)
      g == GetQueryResult(a.heap, a.nconn, 1, q, self.verify_query,
                          self.modification_query)
  IN  [submission_result |-> g.result, answer_result |-> a.result, error |-> g.error,
       comparison |-> compare_rows(a.result, g.result, self.is_ordered)]

\* C9: construction and every attempt open exactly one new connection, every
\* attempt in flight has a sandbox of its own, which is neither the reference
\* nor another attempt's, and an attempt returns what it returns when run alone
\* right after construction.
C9_FreshSandboxPerEvaluation ==
  /\ nconn = 1 + (IF self.phase = "new" THEN 0 ELSE 1) + nattempts
  /\ \A t \in Threads :
       InFlight(t) => (th[t].database \in DOMAIN heap /\ th[t].database # self.database)
  /\ \A t, u \in Threads :
       (t # u /\ InFlight(t) /\ InFlight(u)) => th[t].database # th[u].database
  /\ \A t \in Threads : Done(t) => th[t].ret = AttemptAlone(th[t].query)

\* One attempt has returned while another, which changed its own sandbox, is
\* still in flight.
C9_Witness ==
  \E t, u \in Threads :
    /\ Done(t)
    /\ th[u].pc = "verify"
    /\ heap[th[u].database] # pristine
    /\ th[t].ret.submission_result.some
    /\ th[t].query # th[u].query

\* rows = none exactly when error is not none.
NoneIffError(result, error) == ~result.some <=> error.some

\* C10: every pair _run returns, and the pair of every whole chain, has rows
\* none exactly when it has an error; the final pair of a chain with a
\* verification query is that of the verification step, not the modification
\* step's.
C10_RowsNoneIffError ==
  /\ self.phase = "constructed" => NoneIffError(self.answer_result, ctor_error)
  /\ \A t \in Threads :
       /\ Submitted(t) => NoneIffError(th[t].first.result, th[t].first.error)
       /\ (th[t].pc = "verify" /\ self.modification_query # <<>>) =>
            NoneIffError(th[t].result, th[t].discarded)
       /\ th[t].pc = "return" => NoneIffError(th[t].result, th[t].error)
       /\ Done(t) =>
            /\ NoneIffError(th[t].ret.submission_result, th[t].ret.error)
            /\ self.verify_query = <<>> =>
                 (th[t].ret.submission_result = th[t].first.result
                    /\ th[t].ret.error = th[t].first.error)
            /\ self.verify_query # <<>> =>
                 LET v == Run(th[t].before_verify, self.verify_query, TRUE)
                 IN  (th[t].ret.submission_result = v.result /\ th[t].ret.error = v.message)

\* A chain whose modification step raised returned rows and no error, beside a
\* chain whose submission succeeded with zero rows.
C10_Witness ==
  \E t, u \in Threads :
    /\ Done(t)
    /\ th[t].discarded.some
    /\ th[t].ret.submission_result.some
    /\ ~th[t].ret.error.some
    /\ th[u].pc = "verify"
    /\ th[u].first.result = SomeRows(<<>>)

====
